---- MODULE Spec2Model ----
(***************************************************************************)
(* A model of proxyembed (src/proxyembed/__init__.py): the overwrite-aware *)
(* attribute resolution of ProxyEmbed, its unwrapping into text, and the   *)
(* delivery decision and mention policy of send_to.                        *)
(*                                                                         *)
(* Python values are tagged records; a str is a sequence of one-character  *)
(* strings, so that lengths, prefixes, line breaks and substrings are      *)
(* computed rather than assumed.                                           *)
(***************************************************************************)
EXTENDS Integers, Sequences, FiniteSets, TLC

VARIABLES
    embed,        \* the ProxyEmbed's own (base) slots
    overwrites,   \* its _overwrites, an _OverwritesEmbed
    nops,         \* how many owner operations built the document
    last,         \* the last unwrap() call: what it resolved and returned
    pc,           \* where the one send_to invocation stands
    call,         \* the arguments send_to was called with
    outcome,      \* what the capability check answered and how send_to ended
    log           \* the collaborator calls send_to issued, in order

vars == <<embed, overwrites, nops, last, pc, call, outcome, log>>

(***************************************************************************)
(* Bounds and program constants.                                           *)
(***************************************************************************)
MaxOps == 2

CompactLimit == 78

(***************************************************************************)
(* Python values.                                                          *)
(***************************************************************************)
None == [t |-> "None"]
Str(s) == [t |-> "str", s |-> s]
Bool(b) == [t |-> "bool", b |-> b]
DateTime(n) == [t |-> "datetime", ts |-> n]
List(xs) == [t |-> "list", xs |-> xs]
Dict(m) == [t |-> "dict", m |-> m]
EmbedProxy(m) == [t |-> "EmbedProxy", p |-> m]
DefaultDict(lvl, m) == [t |-> "defaultdict", lvl |-> lvl, dd |-> m]
Embed(cls, slots) == [t |-> "Embed", cls |-> cls, slots |-> slots]

NoItems == [k \in {} |-> None]

\* Sequencing: v is evaluated once and F applied to its value.
Bind(v, F(_)) == CHOOSE res \in { F(x) : x \in {v} } : TRUE

EmptyOverwrite == Str(<<>>)

\* bool(v)
Truthy(v) ==
    CASE v.t = "None" -> FALSE
      [] v.t = "str" -> v.s # <<>>
      [] v.t = "bool" -> v.b
      [] OTHER -> TRUE

\* v == EmptyOverwrite: only the empty str equals "".
EqEmptyOverwrite(v) == v.t = "str" /\ v.s = <<>>

(***************************************************************************)
(* Strings.                                                                *)
(***************************************************************************)
NL == "\n"

Digits == <<"0", "1", "2", "3", "4", "5", "6", "7", "8", "9">>

RECURSIVE IntStr(_)
IntStr(n) ==
    IF n < 10 THEN <<Digits[n + 1]>> ELSE IntStr(n \div 10) \o <<Digits[(n % 10) + 1]>>

\* int(attr): the value of a decimal literal, or no value (ValueError).
IsIntLit(a) == \E i \in 1..Len(Digits) : Digits[i] = a
IntOf(a) == (CHOOSE i \in 1..Len(Digits) : Digits[i] = a) - 1

StartsWith(s, p) == Len(s) >= Len(p) /\ SubSeq(s, 1, Len(p)) = p

Contains(s, p) ==
    \E i \in 1..(Len(s) - Len(p) + 1) : SubSeq(s, i, i + Len(p) - 1) = p

HasNL(s) == \E i \in 1..Len(s) : s[i] = NL

RECURSIVE Join(_)
Join(lines) ==
    IF lines = <<>> THEN <<>>
    ELSE IF Len(lines) = 1 THEN lines[1]
    ELSE lines[1] \o <<NL>> \o Join(Tail(lines))

RECURSIVE SplitLines(_)
SplitLines(s) ==
    IF ~HasNL(s) THEN <<s>>
    ELSE LET i == CHOOSE j \in 1..Len(s) : s[j] = NL /\ \A k \in 1..(j - 1) : s[k] # NL
         IN <<SubSeq(s, 1, i - 1)>> \o SplitLines(SubSeq(s, i + 1, Len(s)))

Pad(n) == [i \in 1..n |-> "x"]

AT_EVERYONE == <<"@", "e", "v", "e", "r", "y", "o", "n", "e">>
AT_HERE == <<"@", "h", "e", "r", "e">>
ATTACHMENT == <<"a", "t", "t", "a", "c", "h", "m", "e", "n", "t", ":", "/", "/">>

\* MM_RE.search(content)
MM_RE(s) == Contains(s, AT_EVERYONE) \/ Contains(s, AT_HERE)

\* textwrap.indent(string, "> ", lambda _: True): every line of
\* string.splitlines(True) gets the prefix; the empty string has no line.
RECURSIVE indent(_, _)
indent(s, atLineStart) ==
    IF s = <<>> THEN <<>>
    ELSE (IF atLineStart THEN <<">", " ">> ELSE <<>>)
         \o <<Head(s)>> \o indent(Tail(s), Head(s) = NL)

quote(string) == indent(string, TRUE)

\* discord.utils.escape_markdown: a backslash before each markdown character
\* (those of the model's alphabet).
MarkdownChars == {"*", "_", "~", "|", "\\"}

RECURSIVE emd(_)
emd(s) ==
    IF s = <<>> THEN <<>>
    ELSE (IF Head(s) \in MarkdownChars THEN <<"\\", Head(s)>> ELSE <<Head(s)>>)
         \o emd(Tail(s))

(***************************************************************************)
(* Attribute, index and key access on the objects a path walks through.    *)
(* An access answers [ok, v, o]: whether it succeeded, the value, and the  *)
(* object as the access left it (a defaultdict creates what it misses).    *)
(***************************************************************************)
Ok(v, obj) == [ok |-> TRUE, v |-> v, o |-> obj]
Fail(obj) == [ok |-> FALSE, v |-> None, o |-> obj]

PlainAttrs == {"title", "url", "description"}
ProxyAttrs == {"author", "thumbnail", "image", "footer"}
ProxySlot(attr) ==
    CASE attr = "author" -> "_author"
      [] attr = "thumbnail" -> "_thumbnail"
      [] attr = "image" -> "_image"
      [] attr = "footer" -> "_footer"

\* defaultdict(lambda: defaultdict(lambda: None)): what a missing key creates.
DefaultFactory(lvl) == IF lvl = 1 THEN DefaultDict(2, NoItems) ELSE None

\* getattr(obj, attr); ok = FALSE is AttributeError.
Getattr(obj, attr) ==
    CASE obj.t = "Embed" ->
            IF attr \in PlainAttrs THEN Ok(obj.slots[attr], obj)
            ELSE IF attr = "timestamp"
            THEN Ok(IF "_timestamp" \in DOMAIN obj.slots
                    THEN obj.slots["_timestamp"] ELSE None, obj)
            ELSE IF attr \in ProxyAttrs
            THEN Ok(EmbedProxy(IF ProxySlot(attr) \in DOMAIN obj.slots
                               THEN obj.slots[ProxySlot(attr)] ELSE NoItems), obj)
            ELSE IF attr = "_fields" /\ "_fields" \in DOMAIN obj.slots
            THEN Ok(obj.slots["_fields"], obj)
            ELSE Fail(obj)
      [] obj.t = "EmbedProxy" ->
            Ok(IF attr \in DOMAIN obj.p THEN obj.p[attr] ELSE None, obj)
      [] OTHER -> Fail(obj)

\* obj[int(attr)]; ok = FALSE is ValueError, IndexError, KeyError or TypeError.
GetItemInt(obj, attr) ==
    IF ~IsIntLit(attr) THEN Fail(obj)
    ELSE LET i == IntOf(attr) IN
         CASE obj.t = "list" ->
                 IF i < Len(obj.xs) THEN Ok(obj.xs[i + 1], obj) ELSE Fail(obj)
           [] obj.t = "str" ->
                 IF i < Len(obj.s) THEN Ok(Str(<<obj.s[i + 1]>>), obj) ELSE Fail(obj)
           [] obj.t = "dict" -> Fail(obj)
           [] obj.t = "defaultdict" ->
                 IF i \in DOMAIN obj.dd THEN Ok(obj.dd[i], obj)
                 ELSE Ok(DefaultFactory(obj.lvl),
                         DefaultDict(obj.lvl, obj.dd @@ (i :> DefaultFactory(obj.lvl))))
           [] OTHER -> Fail(obj)

\* obj[attr]; ok = FALSE is IndexError, KeyError or TypeError.
GetItemStr(obj, attr) ==
    CASE obj.t = "dict" ->
            IF attr \in DOMAIN obj.m THEN Ok(obj.m[attr], obj) ELSE Fail(obj)
      [] obj.t = "defaultdict" ->
            IF attr \in DOMAIN obj.dd THEN Ok(obj.dd[attr], obj)
            ELSE Ok(DefaultFactory(obj.lvl),
                    DefaultDict(obj.lvl, obj.dd @@ (attr :> DefaultFactory(obj.lvl))))
      [] OTHER -> Fail(obj)

\* ProxyEmbed.__get
get(obj, attr) ==
    IF EqEmptyOverwrite(obj) THEN Ok(obj, obj)
    ELSE LET a == Getattr(obj, attr) IN
         IF a.ok THEN a
         ELSE LET b == GetItemInt(obj, attr) IN
              IF b.ok THEN b
              ELSE LET c == GetItemStr(obj, attr) IN
                   IF c.ok THEN c ELSE Ok(None, obj)

\* The object `held` reached through obj by attr is the same object, not a
\* copy: what a later access did to it shows in obj.
Store(obj, attr, held) ==
    CASE obj.t = "defaultdict" ->
            DefaultDict(obj.lvl,
                [obj.dd EXCEPT ![IF IsIntLit(attr) THEN IntOf(attr) ELSE attr] = held])
      [] obj.t = "Embed" /\ attr = "_fields" /\ "_fields" \in DOMAIN obj.slots ->
            Embed(obj.cls, [obj.slots EXCEPT !["_fields"] = held])
      [] OTHER -> obj

\* The loop of __unwrap_overwrite over attrs.split("."): the overwrite side
\* stops at None, the base side goes on. kept is the overwrite object the
\* walk started from, as the walk left it.
RECURSIVE Walk(_, _, _)
Walk(overwrite, obj, attrs) ==
    IF attrs = <<>> THEN [overwrite |-> overwrite, obj |-> obj, kept |-> overwrite]
    ELSE LET attr == Head(attrs) IN
         Bind(IF overwrite.t # "None" THEN get(overwrite, attr)
              ELSE Ok(overwrite, overwrite), LAMBDA g :
         Bind(get(obj, attr), LAMBDA b :
         Bind(Walk(g.v, b.v, Tail(attrs)), LAMBDA r :
            [overwrite |-> r.overwrite, obj |-> r.obj,
             kept |-> IF overwrite.t # "None" THEN Store(g.o, attr, r.kept)
                      ELSE overwrite])))

\* __unwrap_overwrite with "if overwrite:" for "if overwrite is not None:".
unwrap_overwrite_truthy(self, ow, attrs) ==
    IF attrs = <<>> THEN [exc |-> "TypeError", v |-> None, overwrites |-> ow]
    ELSE Bind(Walk(ow, self, attrs), LAMBDA w :
            [exc |-> "",
             v |-> IF Truthy(w.overwrite) THEN w.overwrite ELSE w.obj,
             overwrites |-> w.kept])

\* ProxyEmbed.__unwrap_overwrite(*attrs), attrs being the segments of
\* ".".join(map(str, attrs)).split("."). Answers the value returned (or the
\* exception raised) and self.overwrites as the call left it.
unwrap_overwrite(self, ow, attrs) ==
    IF attrs = <<>> THEN [exc |-> "TypeError", v |-> None, overwrites |-> ow]
    ELSE Bind(Walk(ow, self, attrs), LAMBDA w :
            [exc |-> "",
             v |-> IF w.overwrite.t # "None" THEN w.overwrite ELSE w.obj,
             overwrites |-> w.kept])

(***************************************************************************)
(* ProxyEmbed.unwrap                                                       *)
(***************************************************************************)
Bold(s) == <<"*", "*">> \o s \o <<"*", "*">>

NumFields(self) ==
    IF "_fields" \in DOMAIN self.slots THEN Len(self.slots["_fields"].xs) ELSE 0

\* if unwrapped and unwrapped[-1]: unwrapped.append("")
Separator(unwrapped) ==
    IF unwrapped # <<>> /\ unwrapped[Len(unwrapped)] # <<>>
    THEN Append(unwrapped, <<>>) ELSE unwrapped

\* FieldLines with the length test on len(name) + len(value) >= 78.
FieldLines_off_by_one(inline, name, value) ==
    LET bold == Bold(emd(name)) IN
    IF \/ (inline.t = "bool" /\ ~inline.b)
       \/ Len(bold) + Len(value) >= CompactLimit
       \/ HasNL(bold)
       \/ HasNL(value)
    THEN <<bold, quote(value)>>
    ELSE <<bold \o <<" ", "|", " ">> \o value>>

\* The lines one field adds: inline, name and value as resolved.
FieldLines(inline, name, value) ==
    LET bold == Bold(emd(name)) IN
    IF \/ (inline.t = "bool" /\ ~inline.b)
       \/ Len(bold) + Len(value) > CompactLimit
       \/ HasNL(bold)
       \/ HasNL(value)
    THEN <<bold, quote(value)>>
    ELSE <<bold \o <<" ", "|", " ">> \o value>>

\* One call self.__unwrap_overwrite(*attrs) made by unwrap, as recorded.
Resolved(attrs, r) == [path |-> attrs, v |-> r.v]

\* unwrap's progress: the line buffer, self.overwrites as the calls so far
\* left it, the resolutions made so far in call order, the exception raised.
Begin(ow) == [exc |-> "", unwrapped |-> <<>>, overwrites |-> ow, resolved |-> <<>>]

\* x = _(attrs); if x [and Keep(x)]: unwrapped.append(Render(x))
Emit(self, st0, attrs, Keep(_), Render(_)) ==
    Bind(st0, LAMBDA st :
    Bind(unwrap_overwrite(self, st.overwrites, attrs), LAMBDA r :
       [exc |-> st.exc,
        unwrapped |-> IF Truthy(r.v) /\ Keep(r.v.s)
                      THEN Append(st.unwrapped, Render(r.v.s)) ELSE st.unwrapped,
        overwrites |-> r.overwrites,
        resolved |-> Append(st.resolved, Resolved(attrs, r))]))

Separate(st0) ==
    Bind(st0, LAMBDA st : [st EXCEPT !.unwrapped = Separator(st.unwrapped)])

\* for i in range(len(getattr(self, "_fields", []))): ...
RECURSIVE FieldLoop(_, _, _)
FieldLoop(self, st0, i) ==
    IF i >= NumFields(self) THEN st0
    ELSE LET pi == <<"_fields", Digits[i + 1], "inline">>
             pn == <<"_fields", Digits[i + 1], "name">>
             pv == <<"_fields", Digits[i + 1], "value">>
         IN
         Bind(st0, LAMBDA st :
         Bind(unwrap_overwrite(self, st.overwrites, pi), LAMBDA inline :
         Bind(unwrap_overwrite(self, inline.overwrites, pn), LAMBDA name :
         Bind(unwrap_overwrite(self, name.overwrites, pv), LAMBDA value :
         Bind(st.resolved \o <<Resolved(pi, inline), Resolved(pn, name),
                               Resolved(pv, value)>>, LAMBDA sofar :
            IF ~(Truthy(name.v) /\ Truthy(value.v))
            THEN [exc |-> "AssertionError", unwrapped |-> st.unwrapped,
                  overwrites |-> value.overwrites, resolved |-> sofar]
            ELSE Bind([exc |-> "",
                       unwrapped |-> st.unwrapped
                                     \o FieldLines(inline.v, name.v.s, value.v.s),
                       overwrites |-> value.overwrites,
                       resolved |-> sofar],
                      LAMBDA next : FieldLoop(self, next, i + 1)))))))

\* The bullet character of the footer line, as one character.
BULLET == "bullet"

\* f"<t:{timestamp.timestamp():.0f}>"
TimeMarker(timestamp) == <<"<", "t", ":">> \o IntStr(timestamp.ts) \o <<">">>

\* text, timestamp = _("footer.text"), _("timestamp") and the footer line
Footer(self, st0) ==
    Bind(st0, LAMBDA st :
    Bind(unwrap_overwrite(self, st.overwrites, <<"footer", "text">>), LAMBDA text :
    Bind(unwrap_overwrite(self, text.overwrites, <<"timestamp">>), LAMBDA timestamp :
       [exc |-> st.exc,
        unwrapped |->
            IF Truthy(text.v) /\ Truthy(timestamp.v)
            THEN Append(st.unwrapped,
                        emd(text.v.s) \o <<" ", BULLET, " ">> \o TimeMarker(timestamp.v))
            ELSE IF Truthy(text.v) THEN Append(st.unwrapped, emd(text.v.s))
            ELSE IF Truthy(timestamp.v) THEN Append(st.unwrapped, TimeMarker(timestamp.v))
            ELSE st.unwrapped,
        overwrites |-> timestamp.overwrites,
        resolved |-> st.resolved \o <<Resolved(<<"footer", "text">>, text),
                                      Resolved(<<"timestamp">>, timestamp)>>])))

Always(x) == TRUE

\* The attachment test left out: every URL is kept.
NotAttachment_missing(url) == TRUE

\* not url.startswith("attachment://")
NotAttachment(url) == ~StartsWith(url, ATTACHMENT)

\* unwrap(): the text returned (or the exception raised), the line buffer
\* joined into it, self.overwrites as the call left it, and the resolutions
\* it made.
unwrap(self, ow) ==
    LET title == Emit(self, Begin(ow), <<"title">>, Always, LAMBDA x : Bold(emd(x)))
        url == Emit(self, title, <<"url">>, Always, LAMBDA x : <<">", " ">> \o x)
        name == Emit(self, url, <<"author", "name">>, Always,
                     LAMBDA x : <<"*">> \o emd(x) \o <<"*">>)
        aurl == Emit(self, name, <<"author", "url">>, Always,
                     LAMBDA x : <<"<">> \o x \o <<">">>)
        thumbnail == Emit(self, Separate(aurl), <<"thumbnail", "url">>, NotAttachment,
                          LAMBDA x : x)
        description == Emit(self, thumbnail, <<"description">>, Always,
                            LAMBDA x : quote(x))
        fields == FieldLoop(self, Separate(description), 0)
    IN Bind(fields, LAMBDA f :
          IF f.exc # ""
          THEN [exc |-> f.exc, unwrapped |-> <<>>, text |-> <<>>,
                overwrites |-> f.overwrites, resolved |-> f.resolved]
          ELSE Bind(Footer(self, Emit(self, Separate(f), <<"image", "url">>,
                                      NotAttachment, LAMBDA x : x)),
                    LAMBDA st :
                       [exc |-> "", unwrapped |-> st.unwrapped,
                        text |-> Join(st.unwrapped),
                        overwrites |-> st.overwrites, resolved |-> st.resolved]))

(***************************************************************************)
(* The document and its owner.                                             *)
(***************************************************************************)
PlainSlots == [title |-> None, url |-> None, description |-> None]

\* ProxyEmbed.__new__ and discord.Embed.__init__
NewProxyEmbed == Embed("ProxyEmbed", PlainSlots)

\* _OverwritesEmbed.__init__
NewOverwritesEmbed ==
    Embed("_OverwritesEmbed", ("_fields" :> DefaultDict(1, NoItems)) @@ PlainSlots)

Field(name, value, inline) ==
    [name |-> Str(name), value |-> Str(value), inline |-> Bool(inline)]

SetSlot(self, slot, val) == Embed(self.cls, (slot :> val) @@ self.slots)

\* discord.Embed.add_field on the base document
add_field(self, f) ==
    SetSlot(self, "_fields",
            List((IF "_fields" \in DOMAIN self.slots THEN self.slots["_fields"].xs
                  ELSE <<>>) \o <<Dict(f)>>))

\* discord.Embed.set_field_at on the overwrites: self._fields[index] is the
\* defaultdict's entry, created when missing, and gets all three keys.
set_field_at(ow, index, f) ==
    LET fields == ow.slots["_fields"]
        old == IF index \in DOMAIN fields.dd THEN fields.dd[index].dd ELSE NoItems
    IN SetSlot(ow, "_fields",
               DefaultDict(1, (index :> DefaultDict(2, f @@ old)) @@ fields.dd))

AttachmentUrl == ATTACHMENT \o <<"x">>

\* What the owner sets on the base document: slot and value.
BaseInputs ==
    { [slot |-> "title", val |-> Str(<<"T">>)],
      [slot |-> "url", val |-> Str(<<"u">>)],
      [slot |-> "description", val |-> Str(<<"D">>)],
      [slot |-> "description", val |-> Str(<<"D", NL, NL, "E">>)],
      [slot |-> "_author", val |-> [name |-> Str(<<"A">>), url |-> Str(<<"a">>)]],
      [slot |-> "_thumbnail", val |-> [url |-> Str(<<"h">>)]],
      [slot |-> "_thumbnail", val |-> [url |-> Str(AttachmentUrl)]],
      [slot |-> "_image", val |-> [url |-> Str(<<"i">>)]],
      [slot |-> "_image", val |-> [url |-> Str(AttachmentUrl)]],
      [slot |-> "_footer", val |-> [text |-> Str(<<"F">>)]],
      [slot |-> "_footer", val |-> [text |-> Str(AttachmentUrl)]],
      [slot |-> "_timestamp", val |-> DateTime(12)] }

\* What the owner sets on the overwrites: EmptyOverwrite or a value.
OverwriteInputs ==
    { [slot |-> "title", val |-> EmptyOverwrite],
      [slot |-> "title", val |-> Str(<<"O">>)],
      [slot |-> "url", val |-> EmptyOverwrite],
      [slot |-> "description", val |-> EmptyOverwrite],
      [slot |-> "_author", val |-> [name |-> EmptyOverwrite]],
      [slot |-> "_author", val |-> [name |-> Str(<<"B">>), url |-> EmptyOverwrite]],
      [slot |-> "_thumbnail", val |-> [url |-> EmptyOverwrite]],
      [slot |-> "_thumbnail", val |-> [url |-> Str(AttachmentUrl)]],
      [slot |-> "_image", val |-> [url |-> EmptyOverwrite]],
      [slot |-> "_image", val |-> [url |-> Str(<<"j">>)]],
      [slot |-> "_image", val |-> [url |-> Str(AttachmentUrl)]],
      [slot |-> "_footer", val |-> [text |-> EmptyOverwrite]],
      [slot |-> "_timestamp", val |-> EmptyOverwrite] }

\* Fields the owner adds: short and inline, not inline, at and over the
\* compact limit (with a plain and with an escaped name), with a line break.
FieldInputs ==
    { Field(<<"N">>, <<"V">>, TRUE),
      Field(<<"N">>, <<"V">>, FALSE),
      Field(<<"N">>, Pad(CompactLimit - 5), TRUE),
      Field(<<"N">>, Pad(CompactLimit - 4), TRUE),
      Field(<<"*">>, Pad(CompactLimit - 5), TRUE),
      Field(<<"N">>, <<"V", NL, "W">>, TRUE) }

\* Field overwrites the owner sets with set_field_at.
FieldOverwriteInputs ==
    { Field(<<"M">>, <<"W">>, FALSE),
      Field(<<"M">>, Pad(CompactLimit - 4), TRUE),
      Field(<<"M">>, <<>>, TRUE) }

\* title "T", description "D" and one inline field N/V
ScenarioEmbed ==
    add_field(SetSlot(SetSlot(NewProxyEmbed, "title", Str(<<"T">>)),
                      "description", Str(<<"D">>)),
              Field(<<"N">>, <<"V">>, TRUE))

NoCall == [t |-> "None"]
NoOutcome == [requested |-> "none", exc |-> "", returned |-> FALSE]

Init ==
    /\ embed \in {NewProxyEmbed, ScenarioEmbed}
    /\ overwrites = NewOverwritesEmbed
    /\ nops = 0
    /\ last = [op |-> "none"]
    /\ pc = "idle"
    /\ call = NoCall
    /\ outcome = NoOutcome
    /\ log = <<>>

SendIdle == UNCHANGED <<pc, call, outcome, log>>

\* embed.title = ..., embed.set_author(...), embed.timestamp = ...
SetBase ==
    /\ pc = "idle" /\ nops < MaxOps
    /\ \E c \in BaseInputs : embed' = SetSlot(embed, c.slot, c.val)
    /\ nops' = nops + 1
    /\ last' = [op |-> "none"]
    /\ UNCHANGED overwrites
    /\ SendIdle

\* embed.add_field(name=..., value=..., inline=...)
AddField ==
    /\ pc = "idle" /\ nops < MaxOps
    /\ \E f \in FieldInputs : embed' = add_field(embed, f)
    /\ nops' = nops + 1
    /\ last' = [op |-> "none"]
    /\ UNCHANGED overwrites
    /\ SendIdle

\* embed.overwrites.title = ..., embed.overwrites.set_footer(...), ...
SetOverwrite ==
    /\ pc = "idle" /\ nops < MaxOps
    /\ \E c \in OverwriteInputs : overwrites' = SetSlot(overwrites, c.slot, c.val)
    /\ nops' = nops + 1
    /\ last' = [op |-> "none"]
    /\ UNCHANGED embed
    /\ SendIdle

\* embed.overwrites.set_field_at(i, name=..., value=..., inline=...)
SetFieldAt ==
    /\ pc = "idle" /\ nops < MaxOps
    /\ \E i \in 0..NumFields(embed), f \in FieldOverwriteInputs :
           overwrites' = set_field_at(overwrites, i, f)
    /\ nops' = nops + 1
    /\ last' = [op |-> "none"]
    /\ UNCHANGED embed
    /\ SendIdle

\* One call of unwrap().
Unwrap ==
    /\ pc = "idle"
    /\ LET r == unwrap(embed, overwrites) IN
       /\ last' = [op |-> "unwrap", exc |-> r.exc, unwrapped |-> r.unwrapped,
                   text |-> r.text, resolved |-> r.resolved]
       /\ overwrites' = r.overwrites
    /\ UNCHANGED <<embed, nops>>
    /\ SendIdle

Next == SetBase \/ AddField \/ SetOverwrite \/ SetFieldAt \/ Unwrap

Spec == Init /\ [][Next]_vars

(***************************************************************************)
(* ProxyEmbed.send_to                                                      *)
(***************************************************************************)
Absent == [t |-> "absent"]
Self == [t |-> "self"]
Other == [t |-> "other"]

\* discord.AllowedMentions: each category is "default" (the library's
\* default, left as it is), "True", "False" or "list" (an explicit list).
AllowedMentions(everyone, users, roles) ==
    [t |-> "AllowedMentions", everyone |-> everyone, users |-> users, roles |-> roles]

\* **kwargs: a keyword argument that was passed is a key.
Kw(key, v) == IF v.t = "absent" THEN NoItems ELSE (key :> v)
Pop(kwargs, key) == [k \in DOMAIN kwargs \ {key} |-> kwargs[k]]
Get(kwargs, key) == IF key \in DOMAIN kwargs THEN kwargs[key] ELSE None

\* getattr(mentions, attr) == True, with the "is True" the comment warns of.
EqTrue_is(v) == v = "True"

\* getattr(mentions, attr) == True: "use == here in case it's default".
\* The library's default compares equal to True; False and a list do not.
EqTrue(v) == v \in {"True", "default"}

\* The allow-list left as the caller passed it.
limit_mentions_untouched(mentions, content) == mentions

\* The caller's allow-list after lines 281-286.
limit_mentions(mentions, content) ==
    AllowedMentions(
        IF ~Truthy(content) \/ ~MM_RE(content.s) THEN "False" ELSE mentions.everyone,
        IF EqTrue(mentions.users) THEN "False" ELSE mentions.users,
        IF EqTrue(mentions.roles) THEN "False" ELSE mentions.roles)

\* The allow-list built with everyone left at its default in every case.
default_mentions_open(content) == AllowedMentions("default", "False", "False")

\* The allow-list built when the caller passed none, lines 288-294.
default_mentions(content) ==
    IF Truthy(content) /\ MM_RE(content.s)
    THEN AllowedMentions("default", "False", "False")
    ELSE AllowedMentions("False", "False", "False")

\* kwargs as lines 266-274 leave them: bot and embed popped, suppress_embeds
\* set unless the destination is a message to edit.
Prepared(c) ==
    LET kwargs == Pop(Pop(c.kwargs, "bot"), "embed") IN
    IF c.dest = "Message" THEN kwargs
    ELSE ("suppress_embeds" :> Bool(TRUE)) @@ kwargs

\* send = __dest.edit for a message, __dest.send otherwise
SendFn(c) == IF c.dest = "Message" THEN "edit" ELSE "send"

\* The embed path with content dropped from what is sent.
EmbedKwargs_no_content(kwargs) ==
    ("embed" :> Self) @@ Pop(Pop(kwargs, "suppress_embeds"), "content")

\* send(embed=self, **kwargs) after kwargs.pop("suppress_embeds", None)
EmbedKwargs(kwargs) == ("embed" :> Self) @@ Pop(kwargs, "suppress_embeds")

\* send(content=unwrapped, **kwargs), lines 278-298, unwrapped being the
\* text unwrap() returned.
TextKwargs(kwargs, unwrapped) ==
    LET content == Get(kwargs, "content")
        rest == Pop(kwargs, "content")
        mentions == Get(rest, "allowed_mentions")
        policy == IF Truthy(mentions) THEN limit_mentions(mentions, content)
                  ELSE default_mentions(content)
        text == IF content.t # "None" THEN content.s \o <<NL, NL>> \o unwrapped
                ELSE unwrapped
    IN ("content" :> Str(text)) @@ ("allowed_mentions" :> policy) @@ rest

\* The destination embed_requested asks the client about, lines 78-81.
RequestedOf(dest) ==
    CASE dest = "Message" -> "channel"
      [] dest = "DMChannel" -> "recipient"
      [] OTHER -> dest

ContentArgs ==
    { Absent, Str(<<>>), Str(<<"h", "i">>), Str(<<"h", "i", " ">> \o AT_EVERYONE),
      Str(AT_HERE), Str(<<"@", "h", "e", "r">>) }

MentionArgs ==
    { Absent, None }
    \cup { AllowedMentions(e, u, r) : e \in {"default", "True", "False"},
                                      u \in {"default", "True", "False", "list"},
                                      r \in {"default", "True", "False", "list"} }

InitSend ==
    /\ embed \in {NewProxyEmbed, ScenarioEmbed}
    /\ overwrites \in {NewOverwritesEmbed,
                       set_field_at(NewOverwritesEmbed, 0, Field(<<"M">>, <<>>, TRUE))}
    /\ nops = 0
    /\ last = [op |-> "none"]
    /\ pc = "idle"
    /\ call = NoCall
    /\ outcome = NoOutcome
    /\ log = <<>>

\* send_to(dest, **kwargs) up to the await of embed_requested, lines 266-275
\* and 74-82: an embed argument that is not self raises before anything is
\* asked; otherwise the client is asked once.
Call ==
    /\ pc = "idle"
    /\ \E dest \in {"TextChannel", "DMChannel", "Message"},
          content \in ContentArgs, mentions \in MentionArgs,
          e \in {Absent, Self, Other}, bot \in {Absent, [t |-> "Red"]} :
          /\ call' = [dest |-> dest,
                      kwargs |-> Kw("content", content) @@ Kw("allowed_mentions", mentions)
                                 @@ Kw("embed", e) @@ Kw("bot", bot)]
          /\ IF e.t = "other"
             THEN /\ pc' = "raised"
                  /\ outcome' = [outcome EXCEPT !.exc = "TypeError"]
                  /\ log' = log
             ELSE /\ pc' = "embed_requested"
                  /\ outcome' = outcome
                  /\ log' = Append(log, [ev |-> "embed_requested",
                                         dest |-> RequestedOf(dest)])
    /\ UNCHANGED <<embed, overwrites, nops, last>>

\* client.embed_requested answers True: the embed is sent, lines 276-277.
RequestedTrue ==
    /\ pc = "embed_requested"
    /\ outcome' = [outcome EXCEPT !.requested = "True"]
    /\ log' = Append(log, [ev |-> "send", fn |-> SendFn(call),
                           kw |-> EmbedKwargs(Prepared(call))])
    /\ pc' = "send"
    /\ UNCHANGED <<embed, overwrites, nops, last, call>>

\* client.embed_requested answers False: the mention policy is set, the
\* embed is unwrapped and the text is sent, lines 278-298. An exception of
\* unwrap() ends send_to before anything is sent.
RequestedFalse ==
    /\ pc = "embed_requested"
    /\ \E r \in {unwrap(embed, overwrites)} :
          /\ outcome' = [outcome EXCEPT !.requested = "False", !.exc = r.exc]
          /\ last' = [op |-> "unwrap", exc |-> r.exc, unwrapped |-> r.unwrapped,
                      text |-> r.text, resolved |-> r.resolved]
          /\ overwrites' = r.overwrites
          /\ IF r.exc # ""
             THEN /\ pc' = "raised"
                  /\ log' = Append(log, [ev |-> "unwrap"])
             ELSE /\ pc' = "send"
                  /\ log' = log \o <<[ev |-> "unwrap"],
                                     [ev |-> "send", fn |-> SendFn(call),
                                      kw |-> TextKwargs(Prepared(call), r.text)]>>
    /\ UNCHANGED <<embed, nops, call>>

\* A failed check answered as if the client had said False.
RequestedRaises_falls_back ==
    /\ pc = "embed_requested"
    /\ outcome' = [outcome EXCEPT !.requested = "raised"]
    /\ log' = Append(log, [ev |-> "send", fn |-> SendFn(call),
                           kw |-> TextKwargs(Prepared(call), <<>>)])
    /\ pc' = "send"
    /\ UNCHANGED <<embed, overwrites, nops, last, call>>

\* client.embed_requested raises: send_to has no handler, the exception
\* leaves it at line 275.
RequestedRaises ==
    /\ pc = "embed_requested"
    /\ outcome' = [outcome EXCEPT !.requested = "raised", !.exc = "embed_requested"]
    /\ pc' = "raised"
    /\ UNCHANGED <<embed, overwrites, nops, last, call, log>>

\* The awaited send or edit returns the message, which send_to returns.
SendReturns ==
    /\ pc = "send"
    /\ outcome' = [outcome EXCEPT !.returned = TRUE]
    /\ pc' = "returned"
    /\ UNCHANGED <<embed, overwrites, nops, last, call, log>>

\* The awaited send or edit raises: the exception leaves send_to.
SendRaises ==
    /\ pc = "send"
    /\ outcome' = [outcome EXCEPT !.exc = "send"]
    /\ pc' = "raised"
    /\ UNCHANGED <<embed, overwrites, nops, last, call, log>>

NextSend ==
    Call \/ RequestedTrue \/ RequestedFalse \/ RequestedRaises \/ SendReturns
    \/ SendRaises

SpecSend == InitSend /\ [][NextSend]_vars

(***************************************************************************)
(* What the document holds at a path, read off the state directly.         *)
(* unwrap() adds nothing but None entries to the overwrites, so what the   *)
(* overwrites hold at a path is the same before and after the call.        *)
(***************************************************************************)
OverwriteAt(path) ==
    LET slots == overwrites.slots IN
    CASE path[1] \in PlainAttrs -> slots[path[1]]
      [] path[1] = "timestamp" ->
            IF "_timestamp" \in DOMAIN slots THEN slots["_timestamp"] ELSE None
      [] path[1] \in ProxyAttrs ->
            IF ProxySlot(path[1]) \in DOMAIN slots
               /\ path[2] \in DOMAIN slots[ProxySlot(path[1])]
            THEN slots[ProxySlot(path[1])][path[2]] ELSE None
      [] path[1] = "_fields" ->
            LET dd == slots["_fields"].dd
                i == IntOf(path[2])
            IN IF i \in DOMAIN dd /\ path[3] \in DOMAIN dd[i].dd
               THEN dd[i].dd[path[3]] ELSE None

BaseAt(path) ==
    LET slots == embed.slots IN
    CASE path[1] \in PlainAttrs -> slots[path[1]]
      [] path[1] = "timestamp" ->
            IF "_timestamp" \in DOMAIN slots THEN slots["_timestamp"] ELSE None
      [] path[1] \in ProxyAttrs ->
            IF ProxySlot(path[1]) \in DOMAIN slots
               /\ path[2] \in DOMAIN slots[ProxySlot(path[1])]
            THEN slots[ProxySlot(path[1])][path[2]] ELSE None
      [] path[1] = "_fields" ->
            IF IntOf(path[2]) < NumFields(embed)
            THEN slots["_fields"].xs[IntOf(path[2]) + 1].m[path[3]] ELSE None

\* Overwrite first, whatever it is; the base only when there is none.
Expected(path) ==
    IF OverwriteAt(path).t # "None" THEN OverwriteAt(path) ELSE BaseAt(path)

Unwrapped == last.op = "unwrap" /\ last.exc = ""

ResolvedPaths == { last.resolved[k].path : k \in 1..Len(last.resolved) }

ScalarPaths ==
    { <<"title">>, <<"url">>, <<"description">>, <<"author", "name">>,
      <<"author", "url">>, <<"thumbnail", "url">>, <<"image", "url">>,
      <<"footer", "text">>, <<"timestamp">> }

FieldPaths ==
    { <<"_fields", Digits[i + 1], k>> :
          i \in 0..(NumFields(embed) - 1), k \in {"inline", "name", "value"} }

(***************************************************************************)
(* C1. Overwrite precedence: every resolution unwrap() makes returns what  *)
(* the overwrites hold at the path when they hold anything there           *)
(* (EmptyOverwrite and False included), whatever the base holds, and       *)
(* otherwise what the base holds, None when it holds nothing. A call that  *)
(* raised nothing resolved every scalar path and every field path.         *)
(***************************************************************************)
C1_OverwritePrecedence ==
    last.op = "unwrap" =>
        /\ \A k \in 1..Len(last.resolved) :
               last.resolved[k].v = Expected(last.resolved[k].path)
        /\ last.exc = "" => ResolvedPaths = ScalarPaths \cup FieldPaths

\* Resolved in one call: a title overwritten with EmptyOverwrite over a
\* base title, and a field's inline overwritten with False over inline True.
C1_Witness ==
    /\ Unwrapped
    /\ OverwriteAt(<<"title">>) = EmptyOverwrite
    /\ Truthy(BaseAt(<<"title">>))
    /\ NumFields(embed) > 0
    /\ OverwriteAt(<<"_fields", "0", "inline">>) = Bool(FALSE)
    /\ BaseAt(<<"_fields", "0", "inline">>) = Bool(TRUE)
    /\ \E k \in 1..Len(last.resolved) :
           last.resolved[k] = [path |-> <<"title">>, v |-> EmptyOverwrite]
    /\ \E k \in 1..Len(last.resolved) :
           last.resolved[k] = [path |-> <<"_fields", "0", "inline">>, v |-> Bool(FALSE)]

(***************************************************************************)
(* C2. Separator collapsing: when no resolved string holds a line break,   *)
(* the text unwrap() returns has no two consecutive blank lines, no blank  *)
(* line at its start and none at its end; title "T", description "D" and   *)
(* one inline field N/V with no overwrites give "**T**\n\n> D\n\n**N** | V".*)
(***************************************************************************)
NoLineBreakLeaves ==
    \A k \in 1..Len(last.resolved) :
        last.resolved[k].v.t = "str" => ~HasNL(last.resolved[k].v.s)

ScenarioText ==
    <<"*", "*", "T", "*", "*", NL, NL, ">", " ", "D", NL, NL,
      "*", "*", "N", "*", "*", " ", "|", " ", "V">>

NoOverwrites == \A path \in ScalarPaths \cup FieldPaths : OverwriteAt(path) = None

NoBlankRun(lines) == \A k \in 1..(Len(lines) - 1) : ~(lines[k] = <<>> /\ lines[k + 1] = <<>>)

C2_SeparatorCollapsing ==
    (Unwrapped /\ NoLineBreakLeaves) =>
        /\ last.text # <<>> =>
              LET lines == SplitLines(last.text) IN
              /\ NoBlankRun(lines)
              /\ lines[1] # <<>>
              /\ lines[Len(lines)] # <<>>
        /\ (embed = ScenarioEmbed /\ NoOverwrites) => last.text = ScenarioText

(***************************************************************************)
(* C8. Field compaction: in the text of unwrap(), a field whose resolved   *)
(* inline is not False, whose bold escaped name and value have at most 78  *)
(* characters together and hold no line break is the one line              *)
(* **name** | value; any other field is two entries, the bold name and the *)
(* block-quoted value. The fields' lines follow one another in the buffer. *)
(***************************************************************************)
Compact(i) ==
    LET inline == Expected(<<"_fields", Digits[i + 1], "inline">>)
        name == Bold(emd(Expected(<<"_fields", Digits[i + 1], "name">>).s))
        value == Expected(<<"_fields", Digits[i + 1], "value">>).s
    IN /\ inline # Bool(FALSE)
       /\ Len(name) + Len(value) <= CompactLimit
       /\ ~HasNL(name) /\ ~HasNL(value)

ClaimedFieldLines(i) ==
    LET name == Bold(emd(Expected(<<"_fields", Digits[i + 1], "name">>).s))
        value == Expected(<<"_fields", Digits[i + 1], "value">>).s
    IN IF Compact(i) THEN <<name \o <<" ", "|", " ">> \o value>>
       ELSE <<name, quote(value)>>

RECURSIVE ClaimedFieldBlock(_)
ClaimedFieldBlock(n) ==
    IF n = 0 THEN <<>> ELSE ClaimedFieldBlock(n - 1) \o ClaimedFieldLines(n - 1)

C8_FieldCompaction ==
    (Unwrapped /\ NumFields(embed) > 0) =>
        LET block == ClaimedFieldBlock(NumFields(embed)) IN
        \E k \in 0..(Len(last.unwrapped) - Len(block)) :
            /\ SubSeq(last.unwrapped, k + 1, k + Len(block)) = block
            /\ k > 0 => last.unwrapped[k] = <<>>
            /\ k + Len(block) < Len(last.unwrapped)
            /\ last.unwrapped[k + Len(block) + 1] = <<>>

\* Two fields in one text: one of exactly 78 characters, compact, and one
\* of 79, on two lines.
C8_Witness ==
    /\ Unwrapped
    /\ NumFields(embed) = 2
    /\ LET len(i) == Len(Bold(emd(Expected(<<"_fields", Digits[i + 1], "name">>).s)))
                     + Len(Expected(<<"_fields", Digits[i + 1], "value">>).s)
       IN /\ len(0) = CompactLimit /\ Compact(0)
          /\ len(1) = CompactLimit + 1 /\ ~Compact(1)
          /\ Expected(<<"_fields", "1", "inline">>) = Bool(TRUE)

(***************************************************************************)
(* C9. Attachment suppression: when the resolved thumbnail URL or image    *)
(* URL begins with attachment://, no line of the text of unwrap() is that  *)
(* URL (a footer whose text is that very string aside).                    *)
(***************************************************************************)
IsAttachment(v) == v.t = "str" /\ StartsWith(v.s, ATTACHMENT)

C9_AttachmentSuppression ==
    Unwrapped =>
        \A path \in {<<"thumbnail", "url">>, <<"image", "url">>} :
            (IsAttachment(Expected(path)) /\ Expected(<<"footer", "text">>) # Expected(path))
                => \A k \in 1..Len(last.unwrapped) : last.unwrapped[k] # Expected(path).s

\* An attachment URL set over a plain base URL of the image: the text has
\* no line.
C9_Witness ==
    /\ Unwrapped
    /\ BaseAt(<<"image", "url">>) = Str(<<"i">>)
    /\ IsAttachment(OverwriteAt(<<"image", "url">>))
    /\ last.unwrapped = <<>>

(***************************************************************************)
(* C10. unwrap() leaves the overwrites as they were: their contents, the   *)
(* field-index mapping included, are the same after the call as before.    *)
(***************************************************************************)
C10_OverwritesUntouched == [][Unwrap => overwrites' = overwrites]_vars

(***************************************************************************)
(* What send_to was given and what it handed to send or edit.              *)
(***************************************************************************)
Sends == SelectSeq(log, LAMBDA e : e.ev = "send")
Delivered == Sends[1].kw
CallerContent == Get(call.kwargs, "content")
CallerMentions == Get(call.kwargs, "allowed_mentions")

\* The text path made its delivery call.
TextSent == outcome.requested = "False" /\ Len(Sends) = 1

HasBroadcastToken(content) ==
    content.t = "str"
    /\ (Contains(content.s, AT_EVERYONE) \/ Contains(content.s, AT_HERE))

(***************************************************************************)
(* C3. No allow-list from the caller, text path: with @everyone or @here   *)
(* in the content the delivered allowed_mentions has users and roles off   *)
(* and everyone at its default; with no content or no such token it has    *)
(* everyone, users and roles off.                                          *)
(***************************************************************************)
C3_DefaultMentionPolicy ==
    (TextSent /\ CallerMentions.t = "None") =>
        Delivered["allowed_mentions"] =
            IF HasBroadcastToken(CallerContent)
            THEN AllowedMentions("default", "False", "False")
            ELSE AllowedMentions("False", "False", "False")

\* "hi @everyone" and no allow-list: everyone is left at its default.
C3_Witness ==
    /\ TextSent
    /\ "allowed_mentions" \notin DOMAIN call.kwargs
    /\ CallerContent = Str(<<"h", "i", " ">> \o AT_EVERYONE)
    /\ Delivered["allowed_mentions"].everyone = "default"
    /\ Delivered["allowed_mentions"].users = "False"

(***************************************************************************)
(* C4. An allow-list from the caller, text path: with no content, empty    *)
(* content or content with neither @everyone nor @here the delivered       *)
(* policy has everyone off; with such a token the caller's everyone        *)
(* setting is delivered as it was.                                         *)
(***************************************************************************)
C4_BroadcastSuppression ==
    (TextSent /\ CallerMentions.t = "AllowedMentions") =>
        Delivered["allowed_mentions"].everyone =
            IF HasBroadcastToken(CallerContent) THEN CallerMentions.everyone
            ELSE "False"

\* everyone=True passed with the content "hi": delivered with everyone off.
C4_Witness ==
    /\ TextSent
    /\ CallerMentions.t = "AllowedMentions"
    /\ CallerMentions.everyone = "True"
    /\ CallerContent = Str(<<"h", "i">>)
    /\ Delivered["allowed_mentions"].everyone = "False"

(***************************************************************************)
(* C5. An allow-list from the caller, text path, users and roles: as       *)
(* claimed, a category is turned off only when it is the boolean True, and *)
(* one left at its default, False or a list is delivered as it was.        *)
(***************************************************************************)
C5_OnlyLiteralTrue ==
    (TextSent /\ CallerMentions.t = "AllowedMentions") =>
        /\ Delivered["allowed_mentions"].users =
              IF CallerMentions.users = "True" THEN "False" ELSE CallerMentions.users
        /\ Delivered["allowed_mentions"].roles =
              IF CallerMentions.roles = "True" THEN "False" ELSE CallerMentions.roles

(***************************************************************************)
(* C5, amended. A category of users and roles is turned off when it is     *)
(* True or left at its default (which compares equal to True); one that is *)
(* False or an explicit list is delivered as it was.                       *)
(***************************************************************************)
C5_TrueOrDefault ==
    (TextSent /\ CallerMentions.t = "AllowedMentions") =>
        /\ Delivered["allowed_mentions"].users =
              IF CallerMentions.users \in {"True", "default"} THEN "False"
              ELSE CallerMentions.users
        /\ Delivered["allowed_mentions"].roles =
              IF CallerMentions.roles \in {"True", "default"} THEN "False"
              ELSE CallerMentions.roles

\* roles left at its default and users a list: roles is delivered off, the
\* list as it was.
C5_Witness ==
    /\ TextSent
    /\ CallerMentions.t = "AllowedMentions"
    /\ CallerMentions.roles = "default"
    /\ CallerMentions.users = "list"
    /\ Delivered["allowed_mentions"].roles = "False"
    /\ Delivered["allowed_mentions"].users = "list"

Unwraps == SelectSeq(log, LAMBDA e : e.ev = "unwrap")

Checks == SelectSeq(log, LAMBDA e : e.ev = "embed_requested")

C7_CollaboratorOrder ==
    /\ Len(Checks) <= 1
    /\ Len(Sends) <= 1
    /\ \A k \in 1..Len(log) :
          log[k].ev = "send" =>
              /\ outcome.requested \in {"True", "False"}
              /\ \E j \in 1..(k - 1) : log[j].ev = "embed_requested"
    /\ outcome.requested = "raised" =>
          /\ pc = "raised" /\ outcome.exc = "embed_requested"
          /\ Sends = <<>> /\ Unwraps = <<>>
    /\ outcome.exc = "send" =>
          /\ pc = "raised" /\ ~outcome.returned /\ Len(Sends) = 1
    /\ pc \in {"returned", "raised"} => ~ENABLED NextSend

\* embed_requested raised: send_to ended with its exception, nothing sent.
C7_Witness ==
    /\ pc = "raised"
    /\ outcome.requested = "raised"
    /\ Len(Checks) = 1
    /\ Sends = <<>>

====
